---- MODULE Spec2Model ----
(***************************************************************************)
(* Daily Expense Tracker API: the expense endpoints of main.py             *)
(* (add_expense, list_expenses, get_summary), the Expense schema of        *)
(* schemas.py and the document store behind create_document and            *)
(* get_documents.                                                          *)
(*                                                                         *)
(* Conventions.                                                            *)
(*   Optional value : <<>> is None / a missing key, <<v>> is the value v.  *)
(*   date           : <<year, month, day>>.                                *)
(*   datetime       : <<year, month, day, second of day, microsecond>>.    *)
(*   amount         : a number of thousandths (1234 is 1.234), so that     *)
(*                    round(x, 2) has something to round.                  *)
(*   text           : a sequence of one-character strings.                 *)
(***************************************************************************)
EXTENDS Integers, Sequences, FiniteSets, TLC

VARIABLES store, nextId, resp, written

vars == <<store, nextId, resp, written>>

\* ------------------------------------------------------------------------
\* Bounds of the model
\* ------------------------------------------------------------------------
MaxStore == 2

MaxDocs == 3

\* ------------------------------------------------------------------------
\* Program constants
\* ------------------------------------------------------------------------
MINYEAR == 1

MAXYEAR == 9999

DefaultLimit == 100

StatusOk == 200

StatusClientError == 400

StatusInternalError == 500

None == <<>>

Some(v) == <<v>>

\* ------------------------------------------------------------------------
\* datetime.date, datetime.time, datetime.datetime
\* ------------------------------------------------------------------------
TimeMin == <<0, 0>>

TimeMax == <<86399, 999999>>

\* datetime.combine(d, t)
Combine(d, t) == <<d[1], d[2], d[3], t[1], t[2]>>

\* datetime(year, month, day) raises ValueError outside these ranges
\* (day is always 1 where the program constructs a datetime itself).
DatetimeOk(year, month) ==
    /\ MINYEAR <= year /\ year <= MAXYEAR
    /\ 1 <= month /\ month <= 12

Datetime(year, month, day) == <<year, month, day, 0, 0>>

\* the order of datetime values: lexicographic on the components
DtLt(a, b) ==
    \E i \in 1..5 : /\ a[i] < b[i]
                    /\ \A j \in 1..(i - 1) : a[j] = b[j]

DtLe(a, b) == a = b \/ DtLt(a, b)

\* ------------------------------------------------------------------------
\* Text: str(), isoformat()
\* ------------------------------------------------------------------------
DigitChars == <<"0", "1", "2", "3", "4", "5", "6", "7", "8", "9">>

Digit(n) == DigitChars[n + 1]

RECURSIVE Pad(_, _)
\* "%0<w>d" % n for n >= 0
Pad(n, w) ==
    IF w <= 1 /\ n < 10 THEN <<Digit(n)>>
    ELSE Pad(n \div 10, w - 1) \o <<Digit(n % 10)>>

\* datetime.isoformat(): YYYY-MM-DDTHH:MM:SS, with .ffffff when the
\* microsecond is not 0
IsoFormat(dt) ==
    LET h == dt[4] \div 3600
        m == (dt[4] % 3600) \div 60
        s == dt[4] % 60
        base == Pad(dt[1], 4) \o <<"-">> \o Pad(dt[2], 2) \o <<"-">> \o Pad(dt[3], 2)
                \o <<"T">> \o Pad(h, 2) \o <<":">> \o Pad(m, 2) \o <<":">> \o Pad(s, 2)
    IN  IF dt[5] = 0 THEN base ELSE base \o <<".">> \o Pad(dt[5], 6)

\* str(ObjectId): the store's identifiers are numbered here, their text is
\* the decimal numeral
StrOfId(oid) == Pad(oid, 1)

\* ------------------------------------------------------------------------
\* schemas.py
\* ------------------------------------------------------------------------
ExpenseCategory ==
    { "Makanan & Minuman", "Transportasi", "Belanja", "Tagihan",
      "Kesehatan", "Hiburan", "Pendidikan", "Lainnya" }

\* amount: float = Field(..., gt=0)
AmountOkGe(amount) == amount >= 0

AmountOk(amount) == amount > 0

\* category: ExpenseCategory, a Literal: exact string equality
CategoryOkStr(category) == TRUE

CategoryOk(category) == category \in ExpenseCategory

\* Expense(**payload.model_dump()) succeeds
ExpenseValidUnchecked(payload) == TRUE

ExpenseValid(payload) ==
    /\ AmountOk(payload.amount)
    /\ CategoryOk(payload.category)

\* ------------------------------------------------------------------------
\* Inputs of the requests
\* ------------------------------------------------------------------------
NoExtras == [notes |-> None, payment_method |-> None, merchant |-> None]

SomeExtras ==
    [notes |-> Some("makan siang"), payment_method |-> Some("cash"), merchant |-> None]

\* <<amount, category, date, optional fields>> of the request bodies tried
PayloadCases ==
    { <<100000, "Makanan & Minuman", <<2024, 3, 15>>, SomeExtras>>,
      <<50000, "Transportasi", <<2024, 3, 15>>, NoExtras>>,
      <<1234, "Transportasi", <<2024, 12, 31>>, NoExtras>>,
      <<0, "Transportasi", <<2024, 3, 15>>, NoExtras>>,
      <<-5000, "Makanan & Minuman", <<2024, 12, 31>>, SomeExtras>>,
      <<0, "Snacks", <<2024, 12, 31>>, NoExtras>>,
      <<50000, "Snacks", <<2024, 3, 15>>, NoExtras>>,
      <<50000, "transportasi", <<2024, 3, 15>>, NoExtras>>,
      <<50000, " Transportasi", <<2024, 12, 31>>, SomeExtras>> }

\* class ExpenseCreate: the body FastAPI hands to add_expense
ExpenseCreate ==
    { [amount |-> c[1], category |-> c[2], date |-> c[3], notes |-> c[4].notes,
       payment_method |-> c[4].payment_method, merchant |-> c[4].merchant] :
        c \in PayloadCases }

QueryCategories == { None, Some(""), Some("Transportasi") }

QueryDates == { None, Some(<<2024, 3, 15>>), Some(<<2024, 12, 31>>) }

QueryLimits == { 1, DefaultLimit }

QueryMonths == { None, Some(0), Some(3), Some(12), Some(13) }

QueryYears == { None, Some(-1), Some(0), Some(2024), Some(9999) }

\* ------------------------------------------------------------------------
\* The document store: database.create_document, database.get_documents
\* ------------------------------------------------------------------------
\* the store's clock when it stamps created_at / updated_at
StoreNow(n) == <<2026, 1, 1, n, 0>>

\* create_document("expense", data): the document as inserted
CreateDocument(data, oid) ==
    [_id |-> oid, amount |-> data.amount, category |-> data.category,
     date |-> data.date, notes |-> data.notes,
     payment_method |-> data.payment_method, merchant |-> data.merchant,
     created_at |-> Some(StoreNow(oid)), updated_at |-> Some(StoreNow(oid))]

NoFilter == [category |-> None, gte |-> None, lte |-> None, lt |-> None]

\* a document matches a filter {"category": c, "date": {"$gte", "$lte", "$lt"}}
Matches(doc, f) ==
    /\ f.category = None \/ doc.category = f.category
    /\ f.gte = None \/ DtLe(f.gte[1], doc.date)
    /\ f.lte = None \/ DtLe(doc.date, f.lte[1])
    /\ f.lt = None \/ DtLt(doc.date, f.lt[1])

Find(docs, f) == SelectSeq(docs, LAMBDA d : Matches(d, f))

Take(docs, n) == IF Len(docs) <= n THEN docs ELSE SubSeq(docs, 1, n)

\* get_documents("expense", filter_dict, limit); summary passes no limit
GetDocuments(docs, f, limit) ==
    IF limit = None THEN Find(docs, f) ELSE Take(Find(docs, f), limit[1])

\* ------------------------------------------------------------------------
\* add_expense
\* ------------------------------------------------------------------------
\* datetime.combine(d, time.min)
NormalizeDateMax(d) == Combine(d, TimeMax)

NormalizeDate(d) == Combine(d, TimeMin)

\* exp.model_dump(), then the date converted for storage
ExpenseData(payload) ==
    [amount |-> payload.amount, category |-> Some(payload.category),
     date |-> NormalizeDate(payload.date), notes |-> payload.notes,
     payment_method |-> payload.payment_method, merchant |-> payload.merchant]

EmptyBody ==
    [id |-> <<>>, message |-> "", items |-> <<>>, total |-> 0,
     per_category |-> <<>>, detail |-> ""]

Response(op, req, storeOk, status, body) ==
    [op |-> op, req |-> req, storeOk |-> storeOk, status |-> status, body |-> body]

\* raise HTTPException(status_code=400, detail=str(e))
ClientError(op, req, storeOk, detail) ==
    Response(op, req, storeOk, StatusClientError, [EmptyBody EXCEPT !.detail = detail])

\* {"id": inserted_id, "message": "Expense added"}
AddedBodyNoId(inserted_id) ==
    [EmptyBody EXCEPT !.message = "Expense added"]

AddedBody(inserted_id) ==
    [EmptyBody EXCEPT !.id = inserted_id, !.message = "Expense added"]

AddExpense ==
    \E payload \in ExpenseCreate, storeOk \in BOOLEAN :
        IF ~ExpenseValid(payload)
        THEN /\ resp' = ClientError("add", payload, storeOk, "validation error")
             /\ UNCHANGED <<store, nextId, written>>
        ELSE IF ~storeOk
        THEN /\ resp' = ClientError("add", payload, storeOk, "store error")
             /\ UNCHANGED <<store, nextId, written>>
        ELSE /\ Len(store) < MaxStore
             /\ store' = Append(store, CreateDocument(ExpenseData(payload), nextId))
             /\ nextId' = nextId + 1
             /\ written' = Append(written, [payload |-> payload, id |-> StrOfId(nextId)])
             /\ resp' = Response("add", payload, storeOk, StatusOk,
                                 AddedBody(StrOfId(nextId)))

\* ------------------------------------------------------------------------
\* list_expenses
\* ------------------------------------------------------------------------
\* "if category:" : None and the empty string are both false
CategoryGiven(category) == category # None /\ category[1] # ""

\* "if start:" / "if end:" : a date object is always true
DateGiven(d) == d # None

\* date_filter["$gte"] = datetime.combine(start, datetime.min.time())
StartBound(start) == Combine(start, TimeMin)

\* date_filter["$lte"] = datetime.combine(end, datetime.max.time())
EndBoundStartOfDay(end) == Combine(end, TimeMin)

EndBound(end) == Combine(end, TimeMax)

ListFilter(category, start, end) ==
    [category |-> IF CategoryGiven(category) THEN category ELSE None,
     gte |-> IF DateGiven(start) THEN Some(StartBound(start[1])) ELSE None,
     lte |-> IF DateGiven(end) THEN Some(EndBound(end[1])) ELSE None,
     lt |-> None]

\* isinstance(v, datetime): v.isoformat(); every timestamp the store returns
\* is a datetime, a missing one stays missing
IsoOpt(v) == IF v = None THEN None ELSE Some(IsoFormat(v[1]))

\* the loop body of list_expenses: one document made serializable
Shape(d) ==
    [id |-> StrOfId(d._id), amount |-> d.amount, category |-> d.category,
     date |-> IsoFormat(d.date), notes |-> d.notes,
     payment_method |-> d.payment_method, merchant |-> d.merchant,
     created_at |-> IsoOpt(d.created_at), updated_at |-> IsoOpt(d.updated_at)]

ShapeAll(docs) == [i \in 1..Len(docs) |-> Shape(docs[i])]

ListRequests ==
    [category : QueryCategories, start : QueryDates, end : QueryDates,
     limit : QueryLimits]

\* (the shaping done on the stored documents instead of on copies)
ListExpensesInPlace ==
    \E req \in ListRequests, storeOk \in BOOLEAN :
        /\ resp' =
             IF ~storeOk
             THEN Response("list", req, storeOk, StatusInternalError,
                           [EmptyBody EXCEPT !.detail = "Internal Server Error"])
             ELSE Response("list", req, storeOk, StatusOk,
                           [EmptyBody EXCEPT !.items =
                               ShapeAll(GetDocuments(store,
                                   ListFilter(req.category, req.start, req.end),
                                   Some(req.limit)))])
        /\ store' = IF storeOk
                    THEN [i \in DOMAIN store |-> [store[i] EXCEPT !.updated_at = None]]
                    ELSE store
        /\ UNCHANGED <<nextId, written>>

ListExpenses ==
    \E req \in ListRequests, storeOk \in BOOLEAN :
        /\ resp' =
             IF ~storeOk
             THEN Response("list", req, storeOk, StatusInternalError,
                           [EmptyBody EXCEPT !.detail = "Internal Server Error"])
             ELSE Response("list", req, storeOk, StatusOk,
                           [EmptyBody EXCEPT !.items =
                               ShapeAll(GetDocuments(store,
                                   ListFilter(req.category, req.start, req.end),
                                   Some(req.limit)))])
        /\ UNCHANGED <<store, nextId, written>>

\* ------------------------------------------------------------------------
\* get_summary
\* ------------------------------------------------------------------------
\* "if month and year:" : None and 0 are both false
MonthYearGiven(month, year) ==
    /\ month # None /\ month[1] # 0
    /\ year # None /\ year[1] # 0

\* the datetime constructions of the filter raise no ValueError
SummaryFilterOk(month, year) ==
    MonthYearGiven(month, year) =>
        /\ DatetimeOk(year[1], month[1])
        /\ IF month[1] = 12 THEN DatetimeOk(year[1] + 1, 1)
                            ELSE DatetimeOk(year[1], month[1] + 1)

SummaryFilter(month, year) ==
    IF MonthYearGiven(month, year)
    THEN [NoFilter EXCEPT
            !.gte = Some(Datetime(year[1], month[1], 1)),
            !.lt = Some(IF month[1] = 12 THEN Datetime(year[1] + 1, 1, 1)
                                         ELSE Datetime(year[1], month[1] + 1, 1))]
    ELSE NoFilter

\* cat = d.get("category", "Lainnya")
CategoryOf(d) == IF d.category = None THEN "Lainnya" ELSE d.category[1]

\* per_category[cat] = per_category.get(cat, 0.0) + amt
AccumulateOverwrite(per_category, cat, amt) ==
    [k \in (DOMAIN per_category) \cup {cat} |->
        IF k = cat THEN amt ELSE per_category[k]]

Accumulate(per_category, cat, amt) ==
    [k \in (DOMAIN per_category) \cup {cat} |->
        (IF k \in DOMAIN per_category THEN per_category[k] ELSE 0)
        + (IF k = cat THEN amt ELSE 0)]

RECURSIVE Aggregate(_, _, _)
\* the loop "for d in docs", from document i on
Aggregate(docs, i, acc) ==
    IF i > Len(docs) THEN acc
    ELSE Aggregate(docs, i + 1,
            [total |-> acc.total + docs[i].amount,
             per_category |-> Accumulate(acc.per_category, CategoryOf(docs[i]),
                                         docs[i].amount)])

\* round(x, 2) on thousandths: to the nearest hundredth, ties to even
Round2(x) ==
    LET q == x \div 10
        r == x % 10
    IN  IF r < 5 THEN q * 10
        ELSE IF r > 5 THEN (q + 1) * 10
        ELSE IF q % 2 = 0 THEN q * 10 ELSE (q + 1) * 10

SummaryBody(docs) ==
    LET acc == Aggregate(docs, 1, [total |-> 0, per_category |-> <<>>])
    IN  [EmptyBody EXCEPT
            !.total = Round2(acc.total),
            !.per_category = [k \in DOMAIN acc.per_category |->
                                 Round2(acc.per_category[k])]]

SummaryRequests == [month : QueryMonths, year : QueryYears]

GetSummary ==
    \E req \in SummaryRequests, storeOk \in BOOLEAN :
        /\ resp' =
             IF ~SummaryFilterOk(req.month, req.year)
             THEN ClientError("summary", req, storeOk, "ValueError")
             ELSE IF ~storeOk
             THEN ClientError("summary", req, storeOk, "store error")
             ELSE Response("summary", req, storeOk, StatusOk,
                           SummaryBody(GetDocuments(store,
                               SummaryFilter(req.month, req.year), None)))
        /\ UNCHANGED <<store, nextId, written>>

\* ------------------------------------------------------------------------
\* Specifications
\* ------------------------------------------------------------------------
NoResponse == Response("none", <<>>, TRUE, StatusOk, EmptyBody)

\* the service over a store that starts empty
Init ==
    /\ store = <<>>
    /\ nextId = 1
    /\ resp = NoResponse
    /\ written = <<>>

Next == AddExpense \/ ListExpenses \/ GetSummary

Spec == Init /\ [][Next]_vars

\* documents a store may hold, whoever wrote them, in insertion order
StoredDoc(oid, amount, category, date) ==
    [_id |-> oid, amount |-> amount, category |-> category, date |-> date,
     notes |-> None, payment_method |-> None, merchant |-> None,
     created_at |-> None, updated_at |-> Some(StoreNow(oid))]

StoreDocs ==
    << StoredDoc(1, 1234, Some("Transportasi"), <<2024, 3, 14, 86399, 999000>>),
       StoredDoc(2, 100000, Some("Makanan & Minuman"), <<2024, 3, 15, 0, 0>>),
       StoredDoc(3, 50000, Some("Transportasi"), <<2024, 3, 15, 86399, 999000>>),
       StoredDoc(4, 2500, None, <<2024, 3, 16, 0, 0>>),
       StoredDoc(5, 1234, Some("Makanan & Minuman"), <<2024, 4, 1, 0, 0>>),
       StoredDoc(6, 1230, Some("Transportasi"), <<2024, 12, 1, 0, 0>>),
       StoredDoc(7, 70000, None, <<2024, 12, 31, 45000, 0>>),
       StoredDoc(8, 30000, Some("Lainnya"), <<2025, 1, 1, 0, 0>>) >>

\* the read operations over any store content
InitStore ==
    /\ \E S \in SUBSET (1..Len(StoreDocs)) :
          /\ Cardinality(S) <= MaxDocs
          /\ store = SelectSeq(StoreDocs, LAMBDA d : d._id \in S)
    /\ nextId = Len(StoreDocs) + 1
    /\ resp = NoResponse
    /\ written = <<>>

NextRead == ListExpenses \/ GetSummary

SpecStore == InitStore /\ [][NextRead]_vars

\* ------------------------------------------------------------------------
\* Properties
\* ------------------------------------------------------------------------
IsRead(r) == r.op \in {"list", "summary"}

IsPrefix(s, t) == Len(s) <= Len(t) /\ SubSeq(t, 1, Len(s)) = s

\* C1: a write whose amount is <= 0 ends in a 400 error and leaves the
\* store's records as they were.
C1_NonPositiveAmountRejected ==
    [][ (resp'.op = "add" /\ resp'.req.amount <= 0)
        => (resp'.status = StatusClientError /\ store' = store) ]_vars

C1_Witness ==
    /\ resp.op = "add"
    /\ resp.req.amount <= 0
    /\ resp.req.category \in ExpenseCategory
    /\ resp.status = StatusClientError
    /\ Len(store) > 0

\* C2: a write whose category is not exactly one of the eight labels of
\* ExpenseCategory ends in a 400 error and inserts nothing.
C2_UnknownCategoryRejected ==
    [][ (resp'.op = "add" /\ resp'.req.category \notin ExpenseCategory)
        => (resp'.status = StatusClientError /\ store' = store) ]_vars

C2_Witness ==
    /\ resp.op = "add"
    /\ resp.req.category = "transportasi"
    /\ resp.req.amount > 0
    /\ resp.status = StatusClientError
    /\ Len(store) > 0

\* C3: a valid write (amount > 0, category in the enumeration) on a store
\* that accepts the insert succeeds, adds exactly one record and returns the
\* store-assigned identifier, which is not empty.
C3_ValidWriteSucceeds ==
    [][ (/\ resp'.op = "add"
         /\ resp'.req.amount > 0
         /\ resp'.req.category \in ExpenseCategory
         /\ resp'.storeOk)
        => (/\ resp'.status = StatusOk
            /\ Len(store') = Len(store) + 1
            /\ SubSeq(store', 1, Len(store)) = store
            /\ resp'.body.id # <<>>
            /\ resp'.body.id = StrOfId(store'[Len(store')]._id)
            /\ \A i \in 1..Len(store) : store[i]._id # store'[Len(store')]._id) ]_vars

C3_Witness ==
    /\ resp.op = "add"
    /\ resp.status = StatusOk
    /\ Len(store) = 2
    /\ resp.body.id = StrOfId(store[2]._id)

\* the identifiers of a sequence of documents / of returned items, in order
DocIds(docs) == [i \in 1..Len(docs) |-> StrOfId(docs[i]._id)]

ItemIds(items) == [i \in 1..Len(items) |-> items[i].id]

\* the date bounds as the list contract states them
InListRange(r, q) ==
    /\ q.start = None
       \/ DtLe(<<q.start[1][1], q.start[1][2], q.start[1][3], 0, 0>>, r.date)
    /\ q.end = None
       \/ DtLe(r.date, <<q.end[1][1], q.end[1][2], q.end[1][3], 86399, 999999>>)

ListedOriginal(q) ==
    SelectSeq(store, LAMBDA r :
        /\ q.category = None \/ r.category = q.category
        /\ InListRange(r, q))

ListedAmended(q) ==
    SelectSeq(store, LAMBDA r :
        /\ q.category = None \/ q.category = Some("") \/ r.category = q.category
        /\ InListRange(r, q))

\* C4 as stated: the list operation (limit not below the number of matches)
\* returns exactly the records with (category absent or equal) and date
\* within the inclusive bounds given.
C4_ListFilterAsStated ==
    (/\ resp.op = "list"
     /\ resp.status = StatusOk
     /\ resp.req.limit >= Len(ListedOriginal(resp.req)))
    => ItemIds(resp.body.items) = DocIds(ListedOriginal(resp.req))

\* C4 amended: as stated, except that a category given as the empty string
\* filters nothing, like an absent one.
C4_ListFilter ==
    (/\ resp.op = "list"
     /\ resp.status = StatusOk
     /\ resp.req.limit >= Len(ListedAmended(resp.req)))
    => ItemIds(resp.body.items) = DocIds(ListedAmended(resp.req))

C4_Witness ==
    /\ resp.op = "list"
    /\ resp.status = StatusOk
    /\ resp.req.category = Some("Transportasi")
    /\ resp.req.start = Some(<<2024, 3, 15>>)
    /\ resp.req.end = Some(<<2024, 3, 15>>)
    /\ Len(store) = 3
    /\ ItemIds(resp.body.items) = <<StrOfId(3)>>

\* the month [first day of month, first day of next month) as the summary
\* contract states it
InMonth(r, month, year) ==
    /\ DtLe(<<year, month, 1, 0, 0>>, r.date)
    /\ DtLt(r.date, IF month = 12 THEN <<year + 1, 1, 1, 0, 0>>
                                  ELSE <<year, month + 1, 1, 0, 0>>)

\* C5: a summary with month in 1..12 and a year, both supplied, aggregates
\* exactly the records dated within [first day of month, first day of next
\* month), December rolling into January of year + 1.
C5_MonthFilterAsStated ==
    (/\ resp.op = "summary"
     /\ resp.status = StatusOk
     /\ resp.req.month # None
     /\ resp.req.year # None
     /\ resp.req.month[1] \in 1..12)
    => resp.body = SummaryBody(SelectSeq(store, LAMBDA r :
                        InMonth(r, resp.req.month[1], resp.req.year[1])))

RECURSIVE SumAmounts(_)
SumAmounts(docs) ==
    IF docs = <<>> THEN 0 ELSE Head(docs).amount + SumAmounts(Tail(docs))

RECURSIVE SumValues(_, _)
SumValues(f, keys) ==
    IF keys = {} THEN 0
    ELSE LET k == CHOOSE x \in keys : TRUE
         IN  f[k] + SumValues(f, keys \ {k})

\* the label a record is counted under
BucketOf(r) == IF r.category = None THEN "Lainnya" ELSE r.category[1]

\* the records a summary request matched
SummaryMatched == Find(store, SummaryFilter(resp.req.month, resp.req.year))

TwoDecimal(docs) == \A i \in 1..Len(docs) : docs[i].amount % 10 = 0

\* C6: over matched records with two-decimal amounts, total is the sum of
\* the amounts, per_category has exactly the categories present (a record
\* with no category counting as "Lainnya"), each with the sum of its
\* records' amounts, and the per-category values add up to total.
C6_SummaryAggregate ==
    (/\ resp.op = "summary"
     /\ resp.status = StatusOk
     /\ TwoDecimal(SummaryMatched))
    => LET m == SummaryMatched
           pc == resp.body.per_category
       IN  /\ resp.body.total = SumAmounts(m)
           /\ DOMAIN pc = { BucketOf(m[i]) : i \in 1..Len(m) }
           /\ \A k \in DOMAIN pc :
                 pc[k] = SumAmounts(SelectSeq(m, LAMBDA r : BucketOf(r) = k))
           /\ SumValues(pc, DOMAIN pc) = resp.body.total

C6_Witness ==
    /\ resp.op = "summary"
    /\ resp.status = StatusOk
    /\ TwoDecimal(SummaryMatched)
    /\ Len(SummaryMatched) = 3
    /\ \E i \in 1..3 : SummaryMatched[i].category = None
    /\ DOMAIN resp.body.per_category = {"Lainnya", "Transportasi"}
    /\ resp.body.per_category["Lainnya"] = 100000
    /\ resp.body.total = 150000

\* C7: a list or summary request leaves the stored records unchanged, and
\* the same request made again right after it gets the same answer.
C7_ReadsIdempotent ==
    [][ IsRead(resp')
        => /\ store' = store
           /\ (/\ resp.op = resp'.op
               /\ resp.req = resp'.req
               /\ resp.storeOk = resp'.storeOk)
              => (resp'.status = resp.status /\ resp'.body = resp.body) ]_vars

C7_Witness ==
    /\ resp.op = "list"
    /\ resp.status = StatusOk
    /\ Len(store) = 2
    /\ Len(resp.body.items) = 2
    /\ resp.body.items[1].updated_at # None

\* the calendar date a date text decodes to: the digits of YYYY-MM-DD
DigitValue(c) == CHOOSE n \in 0..9 : DigitChars[n + 1] = c

RECURSIVE Number(_)
Number(text) ==
    IF text = <<>> THEN 0
    ELSE 10 * Number(SubSeq(text, 1, Len(text) - 1)) + DigitValue(text[Len(text)])

DateOfText(text) ==
    <<Number(SubSeq(text, 1, 4)), Number(SubSeq(text, 6, 7)),
      Number(SubSeq(text, 9, 10))>>

\* C8: every successful write of a payload dated D is stored with its date
\* at D 00:00:00 and its other fields as given; a list that returns the
\* record gives it the identifier the write returned and a date text that
\* decodes to D; and the list query start = D, end = D matches it.
C8_RoundTrip ==
    \A i \in 1..Len(written) :
        LET p == written[i].payload
            D == p.date
        IN  /\ \E j \in 1..Len(store) :
                  /\ StrOfId(store[j]._id) = written[i].id
                  /\ store[j].date = <<D[1], D[2], D[3], 0, 0>>
                  /\ store[j].amount = p.amount
                  /\ store[j].category = Some(p.category)
                  /\ store[j].notes = p.notes
                  /\ store[j].payment_method = p.payment_method
                  /\ store[j].merchant = p.merchant
                  /\ Matches(store[j], ListFilter(None, Some(D), Some(D)))
            /\ (resp.op = "list" /\ resp.status = StatusOk) =>
                  /\ \A k \in 1..Len(resp.body.items) :
                        resp.body.items[k].id = written[i].id =>
                            /\ DateOfText(resp.body.items[k].date) = D
                            /\ resp.body.items[k].amount = p.amount
                            /\ resp.body.items[k].category = Some(p.category)
                            /\ resp.body.items[k].notes = p.notes
                            /\ resp.body.items[k].payment_method = p.payment_method
                            /\ resp.body.items[k].merchant = p.merchant
                  /\ (/\ resp.req.category = None
                      /\ resp.req.start = Some(D)
                      /\ resp.req.end = Some(D)
                      /\ resp.req.limit >= Len(store))
                     => \E k \in 1..Len(resp.body.items) :
                            resp.body.items[k].id = written[i].id

C8_Witness ==
    /\ Len(written) = 2
    /\ written[2].payload.date = <<2024, 12, 31>>
    /\ written[1].payload.date = <<2024, 3, 15>>
    /\ resp.op = "list"
    /\ resp.status = StatusOk
    /\ resp.req.start = Some(<<2024, 12, 31>>)
    /\ resp.req.end = Some(<<2024, 12, 31>>)
    /\ Len(resp.body.items) = 1
    /\ resp.body.items[1].id = written[2].id
    /\ DateOfText(resp.body.items[1].date) = <<2024, 12, 31>>

StoredValid(d, w) ==
    /\ d.amount > 0
    /\ d.category # None
    /\ d.category[1] \in ExpenseCategory
    /\ d.date[4] = 0 /\ d.date[5] = 0
    /\ \E i \in 1..Len(w) : w[i].id = StrOfId(d._id)

\* C9: from an empty store, every stored record was inserted by a successful
\* write and has amount > 0, a category of the enumeration and a date at
\* start of day; records are never modified or removed, only a successful
\* write adds one, and a failed request leaves the store unchanged.
C9_StoreInvariant ==
    [][ /\ \A i \in 1..Len(store') : StoredValid(store'[i], written')
        /\ IsPrefix(store, store')
        /\ resp'.status # StatusOk => store' = store
        /\ store' # store =>
              /\ resp'.op = "add"
              /\ Len(store') = Len(store) + 1
              /\ resp'.body.id = StrOfId(store'[Len(store')]._id) ]_vars

C9_Witness ==
    /\ Len(store) = 2
    /\ resp.op = "add"
    /\ resp.status = StatusClientError
    /\ resp.storeOk
    /\ store[1].category # store[2].category

\* C10: a summary whose month and year are both supplied but denote no valid
\* calendar month (month outside 1..12, or year outside the calendar) ends
\* in a 400 error, never in an aggregate.
C10_InvalidMonthYearRejected ==
    (/\ resp.op = "summary"
     /\ resp.req.month # None
     /\ resp.req.year # None
     /\ ~(resp.req.month[1] \in 1..12 /\ resp.req.year[1] \in 1..9999))
    => resp.status = StatusClientError

====
